---- MODULE Spec2Model ----
(***************************************************************************)
(* Part pricing subsystem of meiwaproducts: Part and PriceHistory records, *)
(* the REST handlers of api/purchases, the Product / SupplierBranch delete *)
(* handlers whose referential actions reach Part, and the model methods    *)
(* (clean, save, delete, current_price, current_prices).                   *)
(*                                                                         *)
(* Dates are day numbers 0..MaxDay; a null end_date is NoDate.  An absent  *)
(* request field is the empty sequence <<>>, a supplied one is <<value>>.  *)
(***************************************************************************)
EXTENDS Integers, Sequences, FiniteSets, TLC

\* ---------------------------------------------------------------- bounds
MaxDay == 1
MaxProbeDay == 3
MaxQueryDay == 2
MaxParts == 2
MaxHistories == 2
MaxBlobs == 2
MaxRequests == 2
MaxContacts == 3

Days == 0..MaxDay
NoDate == -1
EndDates == Days \cup {NoDate}

ProductIds == {1, 2}
BranchIds == {1}
PartNumbers == {"A", "B"}
PartPks == 1..MaxParts
HistoryPks == 1..MaxHistories
RequestIds == 1..MaxRequests
\* the branches that SupplierContact rows are saved for
ContactBranchIds == {1, 2}
ContactPks == 1..MaxContacts
NoEmail == ""
Emails == {"e"}

\* accounts.User rows: is_admin / is_staff / is_superuser flags
Users ==
    [u \in {1, 2, 3} |->
        CASE u = 1 -> [is_admin |-> TRUE, is_staff |-> FALSE, is_superuser |-> FALSE]
          [] u = 2 -> [is_admin |-> FALSE, is_staff |-> FALSE, is_superuser |-> FALSE]
          [] u = 3 -> [is_admin |-> FALSE, is_staff |-> TRUE, is_superuser |-> FALSE]]

UserIds == DOMAIN Users

is_administrator(u) ==
    Users[u].is_admin \/ Users[u].is_superuser \/ Users[u].is_staff

\* an optional request field
Opt(S) == {<<>>} \cup {<<x>> : x \in S}
Has(f) == f # <<>>
Val(f) == f[1]
\* attrs.get(name) falling back to the stored value (ModelSerializer.update)
Merge(f, old) == IF Has(f) THEN Val(f) ELSE old

\* ---------------------------------------------------------------- state
VARIABLES
    today,          \* timezone.now().date()
    products,       \* pks of the Product rows
    branches,       \* pks of the SupplierBranch rows
    parts,          \* Part rows, by pk
    histories,      \* PriceHistory rows, by pk
    blobs,          \* quote files on disk, by the number of their upload
    nextBlob,       \* number of the next upload (storage names are unique)
    nextPartPk,     \* AUTO_INCREMENT of parts
    nextHistoryPk,  \* AUTO_INCREMENT of price_histories
    inflight,       \* the requests being served concurrently, by number
    contacts,       \* SupplierContact rows, by pk
    nextContactPk,  \* AUTO_INCREMENT of supplier_contacts
    response        \* the last handler's outcome

db == <<products, branches, parts, histories, blobs, nextBlob, nextPartPk,
       nextHistoryPk>>
contactDb == <<contacts, nextContactPk>>
vars == <<today, products, branches, parts, histories, blobs, nextBlob,
          nextPartPk, nextHistoryPk, inflight, contacts, nextContactPk, response>>

\* op, status and error of the outcome; a delete handler also records the
\* caller and the primary key asked for, a PriceHistory save the key written
\* and the is_active field as submitted, a query its Part and its value
Resp(op, status, error) ==
    [op |-> op, status |-> status, error |-> error, user |-> 0, target |-> 0,
     result |-> <<>>]

By(r, user, pk) == [r EXCEPT !.user = user, !.target = pk]

Saved(r, pk, is_active) == [r EXCEPT !.target = pk, !.result = is_active]

Fail(r) ==
    /\ response' = r
    /\ UNCHANGED <<contactDb, inflight, today, db>>

DropKey(f, k) == [x \in DOMAIN f \ {k} |-> f[x]]

\* the columns of a parts row
PartRows ==
    [product : ProductIds, supplier_branch : BranchIds, part_number : PartNumbers,
     minimum_order_quantity : Nat, is_active : BOOLEAN, created_by : UserIds]

\* the columns of a price_histories row; quote_file is 0 when null
PriceHistoryRows ==
    [part : Nat, price : Nat, start_date : Nat, end_date : Nat \cup {NoDate},
     is_active : BOOLEAN, quote_file : Nat, created_by : UserIds]

\* the columns of a supplier_contacts row the save reads; phone_number is
\* TRUE when the row has one
SupplierContactRows ==
    [branch : ContactBranchIds, email : Emails \cup {NoEmail},
     phone_number : BOOLEAN, is_primary : BOOLEAN]

TypeOK ==
    /\ today \in Nat
    /\ products \subseteq ProductIds
    /\ branches \subseteq ContactBranchIds
    /\ DOMAIN parts \subseteq 1..(nextPartPk - 1)
    /\ \A k \in DOMAIN parts : parts[k] \in PartRows
    /\ DOMAIN histories \subseteq 1..(nextHistoryPk - 1)
    /\ \A h \in DOMAIN histories : histories[h] \in PriceHistoryRows
    /\ blobs \subseteq 1..(nextBlob - 1)
    /\ DOMAIN inflight \subseteq RequestIds
    /\ DOMAIN contacts \subseteq 1..(nextContactPk - 1)
    /\ \A k \in DOMAIN contacts : contacts[k] \in SupplierContactRows

\* a store that holds the Products and the SupplierBranch, and no Part yet
Init ==
    /\ today = 0
    /\ products = ProductIds
    /\ branches = BranchIds
    /\ parts = <<>>
    /\ histories = <<>>
    /\ blobs = {}
    /\ nextBlob = 1
    /\ nextPartPk = 1
    /\ nextHistoryPk = 1
    /\ inflight = <<>>
    /\ contacts = <<>>
    /\ nextContactPk = 1
    /\ response = Resp("none", 0, "none")

\* ------------------------------------------------------------ Part model
\* unique_together with the constraint left out
unique_together_unenforced(pk, product, supplier_branch, part_number) == FALSE

\* unique_together compared against every row, the updated one included
unique_together_including_self(pk, product, supplier_branch, part_number) ==
    \E k \in DOMAIN parts :
        /\ parts[k].product = product
        /\ parts[k].supplier_branch = supplier_branch
        /\ parts[k].part_number = part_number

\* Meta.unique_together: another row already holds the triple
unique_together_violated(pk, product, supplier_branch, part_number) ==
    \E k \in DOMAIN parts :
        /\ k # pk
        /\ parts[k].product = product
        /\ parts[k].supplier_branch = supplier_branch
        /\ parts[k].part_number = part_number

\* price_histories narrowed to the active rows
PriceHistoriesOf_active(pk) ==
    {h \in DOMAIN histories : histories[h].part = pk /\ histories[h].is_active}

PriceHistoriesOf(pk) == {h \in DOMAIN histories : histories[h].part = pk}

\* validate_minimum_order_quantity that lets zero through
validate_minimum_order_quantity_nonnegative(value) == value >= 0

\* PartCreateUpdateSerializer.validate_minimum_order_quantity
validate_minimum_order_quantity(value) == value >= 1

\* PartCreateUpdateSerializer.validate: attrs.get() of an absent field is None,
\* and no row matches a filter on None
PartValidateRejects(instance, a) ==
    /\ Has(a.product) /\ Has(a.supplier_branch) /\ Has(a.part_number)
    /\ \E k \in DOMAIN parts :
        /\ k # instance
        /\ parts[k].product = Val(a.product)
        /\ parts[k].supplier_branch = Val(a.supplier_branch)
        /\ parts[k].part_number = Val(a.part_number)

\* is_valid() of PartCreateUpdateSerializer; instance = 0 on create.
\* Field validation, then the validator of Meta.unique_together (which reads
\* an unprovided field from the instance), then validate().
PartSerializerError(instance, a, partial) ==
    IF ~partial /\ (~Has(a.product) \/ ~Has(a.supplier_branch) \/ ~Has(a.part_number))
    THEN "required"
    ELSE IF \/ Has(a.product) /\ Val(a.product) \notin products
            \/ Has(a.supplier_branch) /\ Val(a.supplier_branch) \notin branches
    THEN "does_not_exist"
    ELSE IF Has(a.minimum_order_quantity)
            /\ ~validate_minimum_order_quantity(Val(a.minimum_order_quantity))
    THEN "invalid_value"
    ELSE IF instance = 0
    THEN IF unique_together_violated(0, Val(a.product), Val(a.supplier_branch),
                                     Val(a.part_number))
            \/ PartValidateRejects(0, a)
         THEN "duplicate" ELSE "none"
    ELSE IF unique_together_violated(instance,
                Merge(a.product, parts[instance].product),
                Merge(a.supplier_branch, parts[instance].supplier_branch),
                Merge(a.part_number, parts[instance].part_number))
            \/ PartValidateRejects(instance, a)
    THEN "duplicate"
    ELSE "none"

\* POST parts/
CreatePart(user, a) ==
    LET err == PartSerializerError(0, a, FALSE) IN
    IF err # "none" THEN Fail(Resp("createPart", 400, err))
    ELSE
        /\ nextPartPk <= MaxParts
        /\ parts' = parts @@ (nextPartPk :>
                [product |-> Val(a.product),
                 supplier_branch |-> Val(a.supplier_branch),
                 part_number |-> Val(a.part_number),
                 minimum_order_quantity |-> Merge(a.minimum_order_quantity, 1),
                 is_active |-> Merge(a.is_active, TRUE),
                 created_by |-> user])
        /\ nextPartPk' = nextPartPk + 1
        /\ response' = Resp("createPart", 201, "none")
        /\ UNCHANGED <<contactDb, inflight, today, products, branches, histories, blobs, nextBlob,
                       nextHistoryPk>>

\* PUT (partial = FALSE) / PATCH (partial = TRUE) parts/<pk>/
\* The hidden created_by field takes its default, the caller, unless partial.
UpdatePart(user, pk, a, partial) ==
    IF pk \notin DOMAIN parts THEN Fail(Resp("updatePart", 404, "not_found"))
    ELSE LET err == PartSerializerError(pk, a, partial) IN
    IF err # "none" THEN Fail(Resp("updatePart", 400, err))
    ELSE
        /\ parts' = [parts EXCEPT ![pk] =
                [product |-> Merge(a.product, @.product),
                 supplier_branch |-> Merge(a.supplier_branch, @.supplier_branch),
                 part_number |-> Merge(a.part_number, @.part_number),
                 minimum_order_quantity |->
                     Merge(a.minimum_order_quantity, @.minimum_order_quantity),
                 is_active |-> Merge(a.is_active, @.is_active),
                 created_by |-> IF partial THEN @.created_by ELSE user]]
        /\ response' = Resp("updatePart", 200, "none")
        /\ UNCHANGED <<contactDb, inflight, today, products, branches, histories, blobs, nextBlob,
                       nextPartPk, nextHistoryPk>>

\* on_delete=CASCADE from Part to PriceHistory: the rows go with the Parts in
\* gone; PriceHistory.delete is not called, so the quote files stay on disk
CascadeDeleteParts(gone) ==
    /\ parts' = [k \in DOMAIN parts \ gone |-> parts[k]]
    /\ histories' = [h \in {x \in DOMAIN histories : histories[x].part \notin gone}
                        |-> histories[h]]
    /\ UNCHANGED <<blobs, nextBlob>>

\* DeletePart that looks the Part up and checks its price histories before
\* it checks the caller
DeletePart_lookup_first(user, pk) ==
    IF pk \notin DOMAIN parts THEN
        Fail(By(Resp("deletePart", 404, "not_found"), user, pk))
    ELSE IF PriceHistoriesOf(pk) # {} THEN
        Fail(By(Resp("deletePart", 400, "dependency"), user, pk))
    ELSE IF ~is_administrator(user) THEN
        Fail(By(Resp("deletePart", 403, "forbidden"), user, pk))
    ELSE
        /\ CascadeDeleteParts({pk})
        /\ response' = By(Resp("deletePart", 204, "none"), user, pk)
        /\ UNCHANGED <<contactDb, inflight, today, products, branches, nextPartPk, nextHistoryPk>>

\* DELETE parts/<pk>/
DeletePart(user, pk) ==
    IF ~is_administrator(user) THEN
        Fail(By(Resp("deletePart", 403, "forbidden"), user, pk))
    ELSE IF pk \notin DOMAIN parts THEN
        Fail(By(Resp("deletePart", 404, "not_found"), user, pk))
    ELSE IF PriceHistoriesOf(pk) # {} THEN
        Fail(By(Resp("deletePart", 400, "dependency"), user, pk))
    ELSE
        /\ CascadeDeleteParts({pk})
        /\ response' = By(Resp("deletePart", 204, "none"), user, pk)
        /\ UNCHANGED <<contactDb, inflight, today, products, branches, nextPartPk, nextHistoryPk>>

\* DELETE products/<pk>/ ; Part.product is on_delete=CASCADE
DeleteProduct(user, pk) ==
    IF ~is_administrator(user) THEN
        Fail(By(Resp("deleteProduct", 403, "forbidden"), user, pk))
    ELSE IF pk \notin products THEN
        Fail(By(Resp("deleteProduct", 404, "not_found"), user, pk))
    ELSE IF \E k \in DOMAIN parts : parts[k].product = pk /\ parts[k].is_active
    THEN Fail(By(Resp("deleteProduct", 400, "dependency"), user, pk))
    ELSE
        /\ products' = products \ {pk}
        /\ CascadeDeleteParts({k \in DOMAIN parts : parts[k].product = pk})
        /\ response' = By(Resp("deleteProduct", 204, "none"), user, pk)
        /\ UNCHANGED <<contactDb, inflight, today, branches, nextPartPk, nextHistoryPk>>

\* DELETE supplier branches/<pk>/ ; Part.supplier_branch is on_delete=PROTECT,
\* so a remaining (inactive) Part makes the delete raise ProtectedError;
\* SupplierContact.branch is on_delete=CASCADE
DeleteBranch(user, pk) ==
    IF ~is_administrator(user) THEN
        Fail(By(Resp("deleteBranch", 403, "forbidden"), user, pk))
    ELSE IF pk \notin branches THEN
        Fail(By(Resp("deleteBranch", 404, "not_found"), user, pk))
    ELSE IF \E k \in DOMAIN parts : parts[k].supplier_branch = pk /\ parts[k].is_active
    THEN Fail(By(Resp("deleteBranch", 400, "dependency"), user, pk))
    ELSE IF \E k \in DOMAIN parts : parts[k].supplier_branch = pk
    THEN Fail(By(Resp("deleteBranch", 500, "protected"), user, pk))
    ELSE
        /\ branches' = branches \ {pk}
        /\ contacts' = [k \in {x \in DOMAIN contacts : contacts[x].branch # pk}
                            |-> contacts[k]]
        /\ response' = By(Resp("deleteBranch", 204, "none"), user, pk)
        /\ UNCHANGED <<nextContactPk, inflight, today, products, parts, histories,
                       blobs, nextBlob, nextPartPk, nextHistoryPk>>

\* ---------------------------------------------------- PriceHistory model
\* _is_overlapping with a strict comparison for an open-ended candidate
_is_overlapping_strict(self, other) ==
    IF self.end_date = NoDate
    THEN IF other.end_date = NoDate THEN TRUE
         ELSE other.end_date > self.start_date
    ELSE IF other.end_date = NoDate
    THEN self.end_date >= other.start_date
    ELSE (self.start_date <= other.end_date) /\ (self.end_date >= other.start_date)

\* PriceHistory._is_overlapping
_is_overlapping(self, other) ==
    IF self.end_date = NoDate
    THEN IF other.end_date = NoDate THEN TRUE
         ELSE other.end_date >= self.start_date
    ELSE IF other.end_date = NoDate
    THEN self.end_date >= other.start_date
    ELSE (self.start_date <= other.end_date) /\ (self.end_date >= other.start_date)

\* clean without the exclude(pk=self.pk)
clean_including_self(pk, self) ==
    IF self.end_date # NoDate /\ self.end_date < self.start_date
    THEN "end_date"
    ELSE IF \E h \in DOMAIN histories :
                /\ histories[h].part = self.part
                /\ histories[h].is_active
                /\ _is_overlapping(self, histories[h])
    THEN "overlap"
    ELSE "none"

\* PriceHistory.clean of the row self with primary key pk (0 when unsaved)
clean(pk, self) ==
    IF self.end_date # NoDate /\ self.end_date < self.start_date
    THEN "end_date"
    ELSE IF \E h \in DOMAIN histories :
                /\ histories[h].part = self.part
                /\ histories[h].is_active
                /\ h # pk
                /\ _is_overlapping(self, histories[h])
    THEN "overlap"
    ELSE "none"

\* save without the forced deactivation
save_unforced(self) == self

\* PriceHistory.save: the row as written
save(self) ==
    IF self.end_date # NoDate /\ self.end_date < today
    THEN [self EXCEPT !.is_active = FALSE]
    ELSE self

\* is_current with the end date itself counted as past
is_current_end_exclusive(self) ==
    IF self.start_date = NoDate THEN FALSE
    ELSE IF ~self.is_active THEN FALSE
    ELSE IF self.start_date > today THEN FALSE
    ELSE IF self.end_date # NoDate /\ self.end_date <= today THEN FALSE
    ELSE TRUE

\* PriceHistory.is_current
is_current(self) ==
    IF self.start_date = NoDate THEN FALSE
    ELSE IF ~self.is_active THEN FALSE
    ELSE IF self.start_date > today THEN FALSE
    ELSE IF self.end_date # NoDate /\ self.end_date < today THEN FALSE
    ELSE TRUE

\* PriceHistory.is_future
is_future(self) ==
    IF self.start_date = NoDate THEN FALSE
    ELSE self.start_date > today

\* is_expired that takes a row ending today as expired
is_expired_inclusive(self) ==
    IF self.end_date = NoDate THEN FALSE
    ELSE self.end_date <= today

\* PriceHistory.is_expired
is_expired(self) ==
    IF self.end_date = NoDate THEN FALSE
    ELSE self.end_date < today

\* PriceHistoryCreateUpdateSerializer.validate_price
validate_price(value) == value >= 0

\* PriceHistoryCreateUpdateSerializer.validate: only the submitted fields
ValidateRejects(a) ==
    /\ Has(a.end_date) /\ Val(a.end_date) # NoDate
    /\ Has(a.start_date)
    /\ Val(a.end_date) < Val(a.start_date)

\* is_valid() of PriceHistoryCreateUpdateSerializer
PriceHistorySerializerError(a, partial) ==
    IF ~partial /\ (~Has(a.part) \/ ~Has(a.price) \/ ~Has(a.start_date))
    THEN "required"
    ELSE IF Has(a.part) /\ Val(a.part) \notin DOMAIN parts
    THEN "does_not_exist"
    ELSE IF Has(a.price) /\ ~validate_price(Val(a.price))
    THEN "price"
    ELSE IF ValidateRejects(a)
    THEN "end_date"
    ELSE "none"

\* FieldFile: a submitted file is stored under a fresh name, a submitted null
\* clears the reference, an absent field keeps it; no old file is removed
StoredFile(a, old) ==
    IF ~Has(a.quote_file) THEN old
    ELSE IF Val(a.quote_file) THEN nextBlob ELSE 0

Upload(a) ==
    IF Has(a.quote_file) /\ Val(a.quote_file)
    THEN /\ nextBlob <= MaxBlobs
         /\ blobs' = blobs \cup {nextBlob}
         /\ nextBlob' = nextBlob + 1
    ELSE UNCHANGED <<blobs, nextBlob>>

\* CreatePriceHistory that writes the row before is_valid() is consulted
CreatePriceHistory_unvalidated(user, a) ==
    LET err == PriceHistorySerializerError(a, FALSE) IN
    /\ Has(a.part) /\ Has(a.price) /\ Has(a.start_date)
    /\ nextHistoryPk <= MaxHistories
    /\ histories' = histories @@ (nextHistoryPk :> save(
            [part |-> Val(a.part),
             price |-> Val(a.price),
             start_date |-> Val(a.start_date),
             end_date |-> Merge(a.end_date, NoDate),
             is_active |-> Merge(a.is_active, TRUE),
             quote_file |-> StoredFile(a, 0),
             created_by |-> user]))
    /\ Upload(a)
    /\ nextHistoryPk' = nextHistoryPk + 1
    /\ response' = IF err # "none" THEN Resp("createPriceHistory", 400, err)
                   ELSE Saved(Resp("createPriceHistory", 201, "none"),
                              nextHistoryPk, a.is_active)
    /\ UNCHANGED <<contactDb, inflight, today, products, branches, parts, nextPartPk>>

\* POST price-histories/ : is_valid(), then ModelSerializer.create -> save()
CreatePriceHistory(user, a) ==
    LET err == PriceHistorySerializerError(a, FALSE) IN
    IF err # "none" THEN Fail(Resp("createPriceHistory", 400, err))
    ELSE
        /\ nextHistoryPk <= MaxHistories
        /\ histories' = histories @@ (nextHistoryPk :> save(
                [part |-> Val(a.part),
                 price |-> Val(a.price),
                 start_date |-> Val(a.start_date),
                 end_date |-> Merge(a.end_date, NoDate),
                 is_active |-> Merge(a.is_active, TRUE),
                 quote_file |-> StoredFile(a, 0),
                 created_by |-> user]))
        /\ Upload(a)
        /\ nextHistoryPk' = nextHistoryPk + 1
        /\ response' = Saved(Resp("createPriceHistory", 201, "none"), nextHistoryPk,
                            a.is_active)
        /\ UNCHANGED <<contactDb, inflight, today, products, branches, parts, nextPartPk>>

\* PUT (partial = FALSE) / PATCH (partial = TRUE) price-histories/<pk>/ :
\* is_valid(), then ModelSerializer.update -> save()
UpdatePriceHistory(user, pk, a, partial) ==
    IF pk \notin DOMAIN histories
    THEN Fail(Resp("updatePriceHistory", 404, "not_found"))
    ELSE LET err == PriceHistorySerializerError(a, partial) IN
    IF err # "none" THEN Fail(Resp("updatePriceHistory", 400, err))
    ELSE
        /\ histories' = [histories EXCEPT ![pk] = save(
                [part |-> Merge(a.part, @.part),
                 price |-> Merge(a.price, @.price),
                 start_date |-> Merge(a.start_date, @.start_date),
                 end_date |-> Merge(a.end_date, @.end_date),
                 is_active |-> Merge(a.is_active, @.is_active),
                 quote_file |-> StoredFile(a, @.quote_file),
                 created_by |-> IF partial THEN @.created_by ELSE user])]
        /\ Upload(a)
        /\ response' = Saved(Resp("updatePriceHistory", 200, "none"), pk, a.is_active)
        /\ UNCHANGED <<contactDb, inflight, today, products, branches, parts, nextPartPk, nextHistoryPk>>

\* delete that removes the quote file and leaves the row in the table
delete_file_only(pk) ==
    /\ blobs' = IF histories[pk].quote_file # 0
                THEN blobs \ {histories[pk].quote_file} ELSE blobs
    /\ histories' = histories

\* delete that removes the row and leaves the quote file on disk
delete_row_only(pk) ==
    /\ blobs' = blobs
    /\ histories' = DropKey(histories, pk)

\* PriceHistory.delete: the quote file, if it is set and on disk, then the row
delete(pk) ==
    /\ blobs' = IF histories[pk].quote_file # 0
                THEN blobs \ {histories[pk].quote_file} ELSE blobs
    /\ histories' = DropKey(histories, pk)

\* DeletePriceHistory without the administrator check
DeletePriceHistory_unchecked(user, pk) ==
    IF pk \notin DOMAIN histories
    THEN Fail(By(Resp("deletePriceHistory", 404, "not_found"), user, pk))
    ELSE
        /\ delete(pk)
        /\ response' = By(Resp("deletePriceHistory", 204, "none"), user, pk)
        /\ UNCHANGED <<contactDb, inflight, today, products, branches, parts, nextBlob, nextPartPk,
                       nextHistoryPk>>

\* DELETE price-histories/<pk>/
DeletePriceHistory(user, pk) ==
    IF ~is_administrator(user) THEN
        Fail(By(Resp("deletePriceHistory", 403, "forbidden"), user, pk))
    ELSE IF pk \notin DOMAIN histories
    THEN Fail(By(Resp("deletePriceHistory", 404, "not_found"), user, pk))
    ELSE
        /\ delete(pk)
        /\ response' = By(Resp("deletePriceHistory", 204, "none"), user, pk)
        /\ UNCHANGED <<contactDb, inflight, today, products, branches, parts, nextBlob, nextPartPk,
                       nextHistoryPk>>

\* PriceHistoryAdmin add (pk = 0) / change form: the ModelForm runs
\* full_clean(), which calls clean(); save_model sets created_by on add
AdminSavePriceHistory(user, pk, f) ==
    IF ~Users[user].is_staff
    THEN Fail(Resp("adminSavePriceHistory", 403, "forbidden"))
    ELSE IF pk # 0 /\ pk \notin DOMAIN histories
    THEN Fail(Resp("adminSavePriceHistory", 404, "not_found"))
    ELSE IF f.part \notin DOMAIN parts
    THEN Fail(Resp("adminSavePriceHistory", 400, "does_not_exist"))
    ELSE IF f.price < 0 THEN Fail(Resp("adminSavePriceHistory", 400, "price"))
    ELSE LET self == [part |-> f.part, price |-> f.price,
                      start_date |-> f.start_date, end_date |-> f.end_date,
                      is_active |-> f.is_active,
                      quote_file |-> IF pk = 0 THEN 0 ELSE histories[pk].quote_file,
                      created_by |-> IF pk = 0 THEN user
                                     ELSE histories[pk].created_by]
             err == clean(pk, self)
         IN
    IF err # "none" THEN Fail(Resp("adminSavePriceHistory", 400, err))
    ELSE
        /\ pk = 0 => nextHistoryPk <= MaxHistories
        /\ histories' = IF pk = 0 THEN histories @@ (nextHistoryPk :> save(self))
                        ELSE [histories EXCEPT ![pk] = save(self)]
        /\ nextHistoryPk' = IF pk = 0 THEN nextHistoryPk + 1 ELSE nextHistoryPk
        /\ response' = Saved(Resp("adminSavePriceHistory", 200, "none"),
                            IF pk = 0 THEN nextHistoryPk ELSE pk, <<f.is_active>>)
        /\ UNCHANGED <<contactDb, inflight, today, products, branches, parts, blobs, nextBlob, nextPartPk>>

\* ------------------------------------------------- concurrent requests
\* ATOMIC_REQUESTS wraps a request in one transaction of the MySQL backend.
\* The reads of its validation see the rows committed so far; its INSERT and
\* commit come later, and another request may commit in between.  A request
\* is served in two steps: Begin... (validation) and Finish... (the write).

\* a request that passed validation, with the row it is going to write
Request(op, row) ==
    [op |-> op, row |-> row, pc |-> "validated", status |-> 0, raced |-> FALSE]

Validated == {r \in DOMAIN inflight : inflight[r].pc = "validated"}

\* the request r enters; it and the requests not yet finished are marked as
\* having been served at the same time
Begin(r, req) ==
    inflight' = [q \in DOMAIN inflight \cup {r} |->
                    IF q = r THEN [req EXCEPT !.raced = (Validated # {})]
                    ELSE IF q \in Validated THEN [inflight[q] EXCEPT !.raced = TRUE]
                    ELSE inflight[q]]

Finished(r, status) == [inflight EXCEPT ![r].pc = "done", ![r].status = status]

\* POST parts/ : serializer.is_valid()
BeginCreatePart(r, user, a) ==
    /\ r \notin DOMAIN inflight
    /\ LET err == PartSerializerError(0, a, FALSE) IN
       IF err # "none" THEN Fail(Resp("createPart", 400, err))
       ELSE
            /\ Begin(r, Request("createPart",
                    [product |-> Val(a.product),
                     supplier_branch |-> Val(a.supplier_branch),
                     part_number |-> Val(a.part_number),
                     minimum_order_quantity |-> Merge(a.minimum_order_quantity, 1),
                     is_active |-> Merge(a.is_active, TRUE),
                     created_by |-> user]))
            /\ response' = Resp("is_valid", 0, "none")
            /\ UNCHANGED <<contactDb, today, db>>

\* POST parts/ : serializer.save(); the unique index of Meta.unique_together
\* refuses the INSERT of a triple that has been committed meanwhile
FinishCreatePart(r) ==
    /\ r \in Validated
    /\ inflight[r].op = "createPart"
    /\ LET row == inflight[r].row IN
       IF unique_together_violated(0, row.product, row.supplier_branch,
                                   row.part_number)
       THEN /\ inflight' = Finished(r, 500)
            /\ response' = Resp("createPart", 500, "integrity")
            /\ UNCHANGED <<contactDb, today, db>>
       ELSE /\ parts' = parts @@ (nextPartPk :> row)
            /\ nextPartPk' = nextPartPk + 1
            /\ inflight' = Finished(r, 201)
            /\ response' = Resp("createPart", 201, "none")
            /\ UNCHANGED <<contactDb, today, products, branches, histories, blobs, nextBlob,
                           nextHistoryPk>>

\* POST price-histories/ : serializer.is_valid()
BeginCreatePriceHistory(r, user, a) ==
    /\ r \notin DOMAIN inflight
    /\ LET err == PriceHistorySerializerError(a, FALSE) IN
       IF err # "none" THEN Fail(Resp("createPriceHistory", 400, err))
       ELSE
            /\ Begin(r, Request("createPriceHistory",
                    [part |-> Val(a.part),
                     price |-> Val(a.price),
                     start_date |-> Val(a.start_date),
                     end_date |-> Merge(a.end_date, NoDate),
                     is_active |-> Merge(a.is_active, TRUE),
                     quote_file |-> 0,
                     created_by |-> user]))
            /\ response' = Resp("is_valid", 0, "none")
            /\ UNCHANGED <<contactDb, today, db>>

\* PriceHistoryAdmin add form : full_clean(), which calls clean()
BeginAdminAddPriceHistory(r, user, f) ==
    /\ r \notin DOMAIN inflight
    /\ Users[user].is_staff
    /\ f.part \in DOMAIN parts
    /\ LET self == [part |-> f.part, price |-> f.price,
                    start_date |-> f.start_date, end_date |-> f.end_date,
                    is_active |-> f.is_active, quote_file |-> 0,
                    created_by |-> user]
           err == clean(0, self)
       IN
       IF err # "none" THEN Fail(Resp("adminSavePriceHistory", 400, err))
       ELSE
            /\ Begin(r, Request("adminSavePriceHistory", self))
            /\ response' = Resp("full_clean", 0, "none")
            /\ UNCHANGED <<contactDb, today, db>>

\* serializer.save() / form.save() of a PriceHistory : PriceHistory.save() and
\* the INSERT; no constraint of the table looks at the other rows
FinishSavePriceHistory(r) ==
    /\ r \in Validated
    /\ inflight[r].op \in {"createPriceHistory", "adminSavePriceHistory"}
    /\ inflight[r].row.part \in DOMAIN parts
    /\ histories' = histories @@ (nextHistoryPk :> save(inflight[r].row))
    /\ nextHistoryPk' = nextHistoryPk + 1
    /\ inflight' = Finished(r, 201)
    /\ response' = Saved(Resp(inflight[r].op, 201, "none"), nextHistoryPk,
                         <<inflight[r].row.is_active>>)
    /\ UNCHANGED <<contactDb, today, products, branches, parts, blobs, nextBlob, nextPartPk>>

\* GET price-histories/<pk>/ : the computed fields of the detail serializer
GetPriceHistory(pk) ==
    /\ pk \in DOMAIN histories
    /\ response' = [Resp("getPriceHistory", 200, "none") EXCEPT
            !.target = pk,
            !.result = <<[is_current |-> is_current(histories[pk]),
                          is_future |-> is_future(histories[pk]),
                          is_expired |-> is_expired(histories[pk])]>>]
    /\ UNCHANGED <<contactDb, inflight, today, db>>

\* get_queryset with an expired filter that takes today's end date as past
status_filter_expired_inclusive(status, self) ==
    CASE status = "current" ->
            /\ self.is_active
            /\ self.start_date <= today
            /\ (self.end_date = NoDate \/ self.end_date >= today)
      [] status = "future" -> self.start_date > today
      [] status = "expired" -> self.end_date # NoDate /\ self.end_date <= today
      [] OTHER -> TRUE

\* PriceHistoryListCreateView.get_queryset: the filter of ?status=
status_filter(status, self) ==
    CASE status = "current" ->
            /\ self.is_active
            /\ self.start_date <= today
            /\ (self.end_date = NoDate \/ self.end_date >= today)
      [] status = "future" -> self.start_date > today
      [] status = "expired" -> self.end_date # NoDate /\ self.end_date < today
      [] OTHER -> TRUE

\* PriceHistoryListCreateView.get_queryset: the rows selected by the query
\* parameters q (part, product, is_active, status; each may be absent)
get_queryset(q) ==
    {h \in DOMAIN histories :
        /\ Has(q.part) => histories[h].part = Val(q.part)
        /\ Has(q.product) => parts[histories[h].part].product = Val(q.product)
        /\ Has(q.is_active) => histories[h].is_active = Val(q.is_active)
        /\ Has(q.status) => status_filter(Val(q.status), histories[h])}

\* order_by('-start_date', '-created_at'); created_at grows with the key
OrderByStartCreatedDesc(S) ==
    CHOOSE s \in [1..Cardinality(S) -> S] :
        /\ \A i, j \in 1..Cardinality(S) : i # j => s[i] # s[j]
        /\ \A i, j \in 1..Cardinality(S) :
            i < j => \/ histories[s[i]].start_date > histories[s[j]].start_date
                     \/ /\ histories[s[i]].start_date = histories[s[j]].start_date
                        /\ s[i] > s[j]

\* GET price-histories/?part=&product=&is_active=&status=
ListPriceHistories(q) ==
    /\ response' = [Resp("listPriceHistories", 200, "none") EXCEPT
            !.result = <<[query |-> q,
                          rows |-> OrderByStartCreatedDesc(get_queryset(q))]>>]
    /\ UNCHANGED <<contactDb, inflight, today, db>>

\* the calendar day passes, up to the day last
AdvanceDay(last) ==
    /\ today < last
    /\ today' = today + 1
    /\ response' = Resp("advanceDay", 0, "none")
    /\ UNCHANGED <<contactDb, inflight, db>>

\* ----------------------------------------------------------- Part queries
\* the rows of S in an order the database may return for order_by('-start_date')
OrderByStartDesc(S) ==
    {q \in [1..Cardinality(S) -> S] :
        /\ \A i, j \in 1..Cardinality(S) : i # j => q[i] # q[j]
        /\ \A i, j \in 1..Cardinality(S) :
            i < j => histories[q[i]].start_date >= histories[q[j]].start_date}

\* current_price that also filters on the end date
current_price_unexpired(pk) ==
    LET rows == {h \in PriceHistoriesOf(pk) :
                    /\ histories[h].is_active
                    /\ histories[h].start_date <= today
                    /\ (histories[h].end_date = NoDate
                        \/ histories[h].end_date >= today)}
    IN  {IF q = <<>> THEN <<>> ELSE <<histories[q[1]].price>> :
            q \in OrderByStartDesc(rows)}

\* current_price over the open-ended rows only
current_price_open_ended(pk) ==
    LET rows == {h \in PriceHistoriesOf(pk) :
                    /\ histories[h].is_active
                    /\ histories[h].start_date <= today
                    /\ histories[h].end_date = NoDate}
    IN  {IF q = <<>> THEN <<>> ELSE <<histories[q[1]].price>> :
            q \in OrderByStartDesc(rows)}

\* current_price that takes the earliest started row
current_price_earliest(pk) ==
    LET rows == {h \in PriceHistoriesOf(pk) :
                    histories[h].is_active /\ histories[h].start_date <= today}
    IN  {IF q = <<>> THEN <<>> ELSE <<histories[q[Len(q)]].price>> :
            q \in OrderByStartDesc(rows)}

\* Part.current_price: the values .first() may yield; <<>> is None
current_price(pk) ==
    LET rows == {h \in PriceHistoriesOf(pk) :
                    histories[h].is_active /\ histories[h].start_date <= today}
    IN  {IF q = <<>> THEN <<>> ELSE <<histories[q[1]].price>> :
            q \in OrderByStartDesc(rows)}

\* current_prices without the end date filter
current_prices_any_end(pk) ==
    LET rows == {h \in PriceHistoriesOf(pk) :
                    histories[h].is_active /\ histories[h].start_date <= today}
    IN  OrderByStartDesc(rows)

\* Part.current_prices: the row sequences the queryset may yield
current_prices(pk) ==
    LET rows == {h \in PriceHistoriesOf(pk) :
                    /\ histories[h].is_active
                    /\ histories[h].start_date <= today
                    /\ (histories[h].end_date = NoDate
                        \/ histories[h].end_date >= today)}
    IN  OrderByStartDesc(rows)

\* Part.has_multiple_active_prices
has_multiple_active_prices(pk) == \A q \in current_prices(pk) : Len(q) > 1

\* GET parts/<pk>/ : the current_price field of the detail serializer
ReadCurrentPrice(pk) ==
    /\ pk \in DOMAIN parts
    /\ \E r \in current_price(pk) :
        response' = [Resp("currentPrice", 200, "none") EXCEPT
                        !.target = pk, !.result = r]
    /\ UNCHANGED <<contactDb, inflight, today, db>>

\* Part.current_prices evaluated for the Part pk
ReadCurrentPrices(pk) ==
    /\ pk \in DOMAIN parts
    /\ \E q \in current_prices(pk) :
        response' = [Resp("currentPrices", 200, "none") EXCEPT
                        !.target = pk, !.result = q]
    /\ UNCHANGED <<contactDb, inflight, today, db>>

\* -------------------------------------------------- SupplierContact model
\* SupplierContact.clean, then the unique_branch_email constraint, as
\* full_clean() runs them for the instance self stored (or to be stored) at pk
contact_full_clean(pk, self) ==
    IF self.email = NoEmail /\ ~self.phone_number THEN "contact_required"
    ELSE IF /\ self.email # NoEmail
            /\ \E k \in DOMAIN contacts \ {pk} :
                    /\ contacts[k].branch = self.branch
                    /\ contacts[k].email = self.email
    THEN "unique_branch_email"
    ELSE "none"

\* the clearing update of save() without the branch filter
clear_primary_every_branch(pk, self) ==
    [k \in DOMAIN contacts |->
        IF k # pk /\ contacts[k].is_primary
        THEN [contacts[k] EXCEPT !.is_primary = FALSE]
        ELSE contacts[k]]

\* filter(branch=self.branch, is_primary=True).exclude(pk=self.pk)
\*     .update(is_primary=False)
clear_primary(pk, self) ==
    [k \in DOMAIN contacts |->
        IF k # pk /\ contacts[k].branch = self.branch /\ contacts[k].is_primary
        THEN [contacts[k] EXCEPT !.is_primary = FALSE]
        ELSE contacts[k]]

\* SupplierContact.save after full_clean(): the table once self is written at pk
contact_save(pk, self) ==
    LET others == IF self.is_primary THEN clear_primary(pk, self) ELSE contacts
    IN  [k \in DOMAIN contacts \cup {pk} |-> IF k = pk THEN self ELSE others[k]]

\* is_valid() of SupplierContactCreateUpdateSerializer: the branch exists, and
\* validate() wants an email or a phone number among the submitted fields
ContactSerializerError(a, partial) ==
    IF ~partial /\ ~Has(a.branch) THEN "required"
    ELSE IF Has(a.branch) /\ Val(a.branch) \notin branches THEN "does_not_exist"
    ELSE IF /\ (~Has(a.email) \/ Val(a.email) = NoEmail)
            /\ (~Has(a.phone_number) \/ ~Val(a.phone_number))
    THEN "contact_required"
    ELSE "none"

\* POST contacts/ : is_valid(), then ModelSerializer.create -> save()
CreateContact(a) ==
    LET err == ContactSerializerError(a, FALSE) IN
    IF err # "none" THEN Fail(Resp("createContact", 400, err))
    ELSE LET self == [branch |-> Val(a.branch),
                      email |-> Merge(a.email, NoEmail),
                      phone_number |-> Merge(a.phone_number, FALSE),
                      is_primary |-> Merge(a.is_primary, FALSE)]
             invalid == contact_full_clean(0, self)
    IN  IF invalid # "none" THEN Fail(Resp("createContact", 500, invalid))
        ELSE
            /\ nextContactPk <= MaxContacts
            /\ contacts' = contact_save(nextContactPk, self)
            /\ nextContactPk' = nextContactPk + 1
            /\ response' = [Resp("createContact", 201, "none") EXCEPT
                                !.target = nextContactPk]
            /\ UNCHANGED <<inflight, today, db>>

\* PUT (partial = FALSE) / PATCH (partial = TRUE) contacts/<pk>/ :
\* is_valid(), then ModelSerializer.update -> save()
UpdateContact(pk, a, partial) ==
    IF pk \notin DOMAIN contacts THEN Fail(Resp("updateContact", 404, "not_found"))
    ELSE LET err == ContactSerializerError(a, partial) IN
    IF err # "none" THEN Fail(Resp("updateContact", 400, err))
    ELSE LET old == contacts[pk]
             self == [branch |-> Merge(a.branch, old.branch),
                      email |-> Merge(a.email, old.email),
                      phone_number |-> Merge(a.phone_number, old.phone_number),
                      is_primary |-> Merge(a.is_primary, old.is_primary)]
             invalid == contact_full_clean(pk, self)
    IN  IF invalid # "none" THEN Fail(Resp("updateContact", 500, invalid))
        ELSE
            /\ contacts' = contact_save(pk, self)
            /\ response' = [Resp("updateContact", 200, "none") EXCEPT !.target = pk]
            /\ UNCHANGED <<nextContactPk, inflight, today, db>>

\* DELETE contacts/<pk>/
DeleteContact(user, pk) ==
    IF ~is_administrator(user) THEN
        Fail(By(Resp("deleteContact", 403, "forbidden"), user, pk))
    ELSE IF pk \notin DOMAIN contacts THEN
        Fail(By(Resp("deleteContact", 404, "not_found"), user, pk))
    ELSE
        /\ contacts' = DropKey(contacts, pk)
        /\ response' = By(Resp("deleteContact", 204, "none"), user, pk)
        /\ UNCHANGED <<nextContactPk, inflight, today, db>>

\* -------------------------------------------------------- specifications
PartAttrs(products_, branches_, numbers_, quantities_, actives_) ==
    [product : products_, supplier_branch : branches_, part_number : numbers_,
     minimum_order_quantity : quantities_, is_active : actives_]

PriceHistoryAttrs(parts_, prices_, starts_, ends_, actives_, files_) ==
    [part : parts_, price : prices_, start_date : starts_, end_date : ends_,
     is_active : actives_, quote_file : files_]

\* One value of every optional field, for requests that submit all fields
Full(S) == {<<x>> : x \in S}

\* PATCH requests that submit one field of a Part
OnePartField ==
    LET none == [product |-> <<>>, supplier_branch |-> <<>>, part_number |-> <<>>,
                 minimum_order_quantity |-> <<>>, is_active |-> <<>>]
    IN  {[none EXCEPT !.product = <<p>>] : p \in ProductIds}
        \cup {[none EXCEPT !.part_number = <<n>>] : n \in PartNumbers}
        \cup {[none EXCEPT !.is_active = <<b>>] : b \in BOOLEAN}

\* The Part catalog, from the empty store: Parts of two products and two part
\* numbers, PriceHistory rows that differ in Part and active flag.
Next ==
    \/ \E a \in PartAttrs(Opt(ProductIds), Full(BranchIds), Full(PartNumbers),
                          {<<>>}, Opt({FALSE})) :
            CreatePart(2, a)
    \/ \E pk \in PartPks,
          a \in PartAttrs(Full(ProductIds), Full(BranchIds), Full(PartNumbers),
                          {<<>>}, {<<>>}) :
            UpdatePart(2, pk, a, FALSE)
    \/ \E pk \in PartPks, a \in OnePartField : UpdatePart(2, pk, a, TRUE)
    \/ \E user \in UserIds, pk \in PartPks : DeletePart(user, pk)
    \/ \E user \in UserIds, pk \in ProductIds : DeleteProduct(user, pk)
    \/ \E user \in UserIds, pk \in BranchIds : DeleteBranch(user, pk)
    \/ \E a \in PriceHistoryAttrs(Full(PartPks), Full({-1, 100}), Full({0}),
                                  {<<>>}, Opt({FALSE}), {<<>>}) :
            CreatePriceHistory(2, a)
    \/ \E user \in UserIds, pk \in HistoryPks : DeletePriceHistory(user, pk)

Spec == Init /\ [][Next]_vars

\* The pricing engine, from a store in which two Parts have been created:
\* every date and flag of a PriceHistory, no quote files.
SeededParts ==
    [k \in {1, 2} |->
        [product |-> 1, supplier_branch |-> 1,
         part_number |-> IF k = 1 THEN "A" ELSE "B",
         minimum_order_quantity |-> 1, is_active |-> TRUE, created_by |-> 2]]

InitPricing ==
    /\ today = 0
    /\ products = ProductIds
    /\ branches = BranchIds
    /\ parts = SeededParts
    /\ histories = <<>>
    /\ blobs = {}
    /\ nextBlob = 1
    /\ nextPartPk = 3
    /\ nextHistoryPk = 1
    /\ inflight = <<>>
    /\ contacts = <<>>
    /\ nextContactPk = 1
    /\ response = Resp("none", 0, "none")

SeededPks == DOMAIN SeededParts

\* PATCH requests that submit one field
OneField ==
    LET none == [part |-> <<>>, price |-> <<>>, start_date |-> <<>>,
                 end_date |-> <<>>, is_active |-> <<>>, quote_file |-> <<>>]
    IN  {[none EXCEPT !.part = <<k>>] : k \in SeededPks}
        \cup {[none EXCEPT !.start_date = <<d>>] : d \in Days}
        \cup {[none EXCEPT !.end_date = <<d>>] : d \in EndDates}
        \cup {[none EXCEPT !.is_active = <<b>>] : b \in BOOLEAN}

NextPricing ==
    \/ \E a \in PriceHistoryAttrs(Full(SeededPks), Full({100}), Full(Days),
                                  Opt(EndDates), Opt(BOOLEAN), {<<>>}) :
            CreatePriceHistory(2, a)
    \/ \E pk \in HistoryPks,
          a \in PriceHistoryAttrs(Full(SeededPks), Full({100}), Opt(Days),
                                  Full(EndDates), Full(BOOLEAN), {<<>>}) :
            UpdatePriceHistory(2, pk, a, FALSE)
    \/ \E pk \in HistoryPks, a \in OneField : UpdatePriceHistory(2, pk, a, TRUE)
    \/ \E user \in UserIds, pk \in HistoryPks : DeletePriceHistory(user, pk)
    \/ \E pk \in {0} \cup HistoryPks,
          f \in [part : SeededPks, price : {100}, start_date : Days,
                 end_date : EndDates, is_active : BOOLEAN] :
            AdminSavePriceHistory(3, pk, f)
    \/ AdvanceDay(MaxDay)

SpecPricing == InitPricing /\ [][NextPricing]_vars

\* The price queries, over the rows that creation and the passing of days
\* leave in the store.
QueryDays == 0..MaxQueryDay

NextQuery ==
    \/ \E a \in PriceHistoryAttrs(Full(SeededPks), Full({100, 200}),
                                  Full(QueryDays), Full(QueryDays \cup {NoDate}),
                                  Opt({FALSE}), {<<>>}) :
            CreatePriceHistory(2, a)
    \/ AdvanceDay(MaxQueryDay)
    \/ \E pk \in SeededPks : ReadCurrentPrice(pk)
    \/ \E pk \in SeededPks : ReadCurrentPrices(pk)

SpecQuery == InitPricing /\ [][NextQuery]_vars

\* _is_overlapping as clean() calls it, for an unsaved candidate against a
\* stored row: the store holds one row of Part 1 with any pair of dates
ProbeDays == 0..MaxProbeDay

ProbeRows ==
    [part : {1}, price : {100}, start_date : ProbeDays,
     end_date : ProbeDays \cup {NoDate}, is_active : {TRUE}, quote_file : {0},
     created_by : {2}]

InitOverlap ==
    /\ today = 0
    /\ products = ProductIds
    /\ branches = BranchIds
    /\ parts = SeededParts
    /\ histories \in [{1} -> ProbeRows]
    /\ blobs = {}
    /\ nextBlob = 1
    /\ nextPartPk = 3
    /\ nextHistoryPk = 2
    /\ inflight = <<>>
    /\ contacts = <<>>
    /\ nextContactPk = 1
    /\ response = Resp("none", 0, "none")

CheckOverlap(self) ==
    /\ response' = [Resp("_is_overlapping", 0, "none") EXCEPT
            !.target = 1,
            !.result = <<[start_date |-> self.start_date,
                          end_date |-> self.end_date,
                          overlapping |-> _is_overlapping(self, histories[1])]>>]
    /\ UNCHANGED <<contactDb, inflight, today, db>>

NextOverlap == \E self \in ProbeRows : CheckOverlap(self)

SpecOverlap == InitOverlap /\ [][NextOverlap]_vars

\* Every write handler of Part and PriceHistory, from the empty store: the
\* catalog requests, and PriceHistory updates and admin saves that meet each
\* rejection.
WritePatches ==
    LET none == [part |-> <<>>, price |-> <<>>, start_date |-> <<>>,
                 end_date |-> <<>>, is_active |-> <<>>, quote_file |-> <<>>]
    IN  {[none EXCEPT !.start_date = <<1>>, !.end_date = <<0>>],
         [none EXCEPT !.is_active = <<FALSE>>],
         [none EXCEPT !.price = <<-1>>]}

NextWrites ==
    \/ Next
    \/ \E pk \in HistoryPks, a \in WritePatches : UpdatePriceHistory(2, pk, a, TRUE)
    \/ \E pk \in {0} \cup HistoryPks,
          f \in [part : PartPks, price : {100}, start_date : {0},
                 end_date : {NoDate}, is_active : BOOLEAN] :
            AdminSavePriceHistory(3, pk, f)

SpecWrites == Init /\ [][NextWrites]_vars

\* Quote files: rows created with and without a file, the file replaced or
\* cleared by PATCH, rows deleted.
FilePatches ==
    LET none == [part |-> <<>>, price |-> <<>>, start_date |-> <<>>,
                 end_date |-> <<>>, is_active |-> <<>>, quote_file |-> <<>>]
    IN  {[none EXCEPT !.quote_file = <<b>>] : b \in BOOLEAN}
        \cup {[none EXCEPT !.is_active = <<FALSE>>]}

NextFiles ==
    \/ \E a \in PriceHistoryAttrs(Full(SeededPks), Full({100}), Full({0}),
                                  {<<>>}, {<<>>}, Opt({TRUE})) :
            CreatePriceHistory(2, a)
    \/ \E pk \in HistoryPks, a \in FilePatches : UpdatePriceHistory(2, pk, a, TRUE)
    \/ \E user \in UserIds, pk \in HistoryPks : DeletePriceHistory(user, pk)

SpecFiles == InitPricing /\ [][NextFiles]_vars

\* The computed status fields of one stored row with any dates and flag,
\* read on each day.
StatusRows ==
    [part : {1}, price : {100}, start_date : ProbeDays,
     end_date : ProbeDays \cup {NoDate}, is_active : BOOLEAN, quote_file : {0},
     created_by : {2}]

InitStatus ==
    /\ today = 0
    /\ products = ProductIds
    /\ branches = BranchIds
    /\ parts = SeededParts
    /\ histories \in [{1} -> StatusRows]
    /\ blobs = {}
    /\ nextBlob = 1
    /\ nextPartPk = 3
    /\ nextHistoryPk = 2
    /\ inflight = <<>>
    /\ contacts = <<>>
    /\ nextContactPk = 1
    /\ response = Resp("none", 0, "none")

NextStatus ==
    \/ \E pk \in HistoryPks : GetPriceHistory(pk)
    \/ AdvanceDay(MaxProbeDay)

SpecStatus == InitStatus /\ [][NextStatus]_vars

\* Requests served at the same time, from a store that holds one Part.
InitConcurrent ==
    /\ today = 0
    /\ products = ProductIds
    /\ branches = BranchIds
    /\ parts = [k \in {1} |-> SeededParts[k]]
    /\ histories = <<>>
    /\ blobs = {}
    /\ nextBlob = 1
    /\ nextPartPk = 2
    /\ nextHistoryPk = 1
    /\ inflight = <<>>
    /\ contacts = <<>>
    /\ nextContactPk = 1
    /\ response = Resp("none", 0, "none")

NextConcurrent ==
    \/ \E r \in RequestIds,
          a \in PartAttrs(Full({1}), Full(BranchIds), Full(PartNumbers),
                          {<<>>}, {<<>>}) :
            BeginCreatePart(r, 2, a)
    \/ \E r \in RequestIds : FinishCreatePart(r)
    \/ \E r \in RequestIds,
          a \in PriceHistoryAttrs(Full({1}), Full({100}), Full(Days),
                                  Opt(EndDates), Opt({FALSE}), {<<>>}) :
            BeginCreatePriceHistory(r, 2, a)
    \/ \E r \in RequestIds,
          f \in [part : {1}, price : {100}, start_date : Days,
                 end_date : EndDates, is_active : BOOLEAN] :
            BeginAdminAddPriceHistory(r, 3, f)
    \/ \E r \in RequestIds : FinishSavePriceHistory(r)

SpecConcurrent == InitConcurrent /\ [][NextConcurrent]_vars

\* Minimum order quantities: Parts created and updated with the quantity
\* absent, below 1 and above 1.
Quantities == {-1, 0, 2}

QuantityCreates ==
    PartAttrs(Full({1}), Full(BranchIds), Full(PartNumbers), Opt(Quantities),
              {<<>>})

QuantityPatches ==
    {[product |-> <<>>, supplier_branch |-> <<>>, part_number |-> <<>>,
      minimum_order_quantity |-> <<q>>, is_active |-> <<>>] : q \in Quantities}

NextQuantity ==
    \/ \E user \in {1, 2}, a \in QuantityCreates : CreatePart(user, a)
    \/ \E pk \in PartPks, a \in QuantityCreates : UpdatePart(2, pk, a, FALSE)
    \/ \E pk \in PartPks, a \in QuantityPatches : UpdatePart(2, pk, a, TRUE)
    \/ \E pk \in PartPks : DeletePart(1, pk)

SpecQuantity == Init /\ [][NextQuantity]_vars

\* The list of price histories under each status filter, over rows of both
\* Parts created on different days.
StatusNames == {"current", "future", "expired"}

ListQueries ==
    [part : Opt(SeededPks), product : Opt({1}), is_active : Opt({TRUE}),
     status : Opt(StatusNames)]

NextList ==
    \/ \E a \in PriceHistoryAttrs(Full(SeededPks), Full({100}), Full(QueryDays),
                                  Full(QueryDays \cup {NoDate}), Opt({FALSE}),
                                  {<<>>}) :
            CreatePriceHistory(2, a)
    \/ AdvanceDay(MaxQueryDay)
    \/ \E q \in ListQueries : ListPriceHistories(q)

SpecList == InitPricing /\ [][NextList]_vars

\* Unblocking a Part: rows are created for both Parts, and an administrator
\* who goes on deleting rows and Parts is eventually served each request that
\* stays possible.
NextUnblock ==
    \/ \E a \in PriceHistoryAttrs(Full(SeededPks), Full({100}), Full({0}),
                                  {<<>>}, Opt({FALSE}), Opt({TRUE})) :
            CreatePriceHistory(2, a)
    \/ \E user \in {1, 2}, pk \in HistoryPks : DeletePriceHistory(user, pk)
    \/ \E user \in {1, 2}, pk \in PartPks : DeletePart(user, pk)

AdminDeletesRow == \E pk \in DOMAIN histories : DeletePriceHistory(1, pk)

AdminDeletesPart ==
    \E pk \in DOMAIN parts : PriceHistoriesOf(pk) = {} /\ DeletePart(1, pk)

SpecUnblock ==
    /\ InitPricing
    /\ [][NextUnblock]_vars
    /\ WF_vars(AdminDeletesRow)
    /\ WF_vars(AdminDeletesPart)

\* Creator references: Parts and PriceHistory rows created and updated by an
\* administrator and by a regular user, each update by either of them.
CreatorParts ==
    PartAttrs(Full({1}), Full(BranchIds), Full(PartNumbers), {<<>>}, {<<>>})

CreatorPartPatches ==
    {[product |-> <<>>, supplier_branch |-> <<>>, part_number |-> <<>>,
      minimum_order_quantity |-> <<>>, is_active |-> <<b>>] : b \in BOOLEAN}

CreatorRows ==
    PriceHistoryAttrs(Full(PartPks), Full({100}), Full({0}), {<<>>}, {<<>>},
                      {<<>>})

CreatorRowPatches ==
    {[part |-> <<>>, price |-> <<p>>, start_date |-> <<>>, end_date |-> <<>>,
      is_active |-> <<>>, quote_file |-> <<>>] : p \in {100, 200}}

NextCreator ==
    \/ \E user \in {1, 2}, a \in CreatorParts : CreatePart(user, a)
    \/ \E user \in {1, 2}, pk \in PartPks, a \in CreatorParts :
            UpdatePart(user, pk, a, FALSE)
    \/ \E user \in {1, 2}, pk \in PartPks, a \in CreatorPartPatches :
            UpdatePart(user, pk, a, TRUE)
    \/ \E user \in {1, 2}, a \in CreatorRows : CreatePriceHistory(user, a)
    \/ \E user \in {1, 2}, pk \in HistoryPks, a \in CreatorRows :
            UpdatePriceHistory(user, pk, a, FALSE)
    \/ \E user \in {1, 2}, pk \in HistoryPks, a \in CreatorRowPatches :
            UpdatePriceHistory(user, pk, a, TRUE)

SpecCreator == Init /\ [][NextCreator]_vars

\* Supplier contacts of two branches: contacts created, updated in full and
\* in part (moved between branches, made primary or not) and deleted.
ContactAttrs(branches_) ==
    [branch : branches_, email : Opt(Emails \cup {NoEmail}),
     phone_number : Opt({TRUE}), is_primary : Opt(BOOLEAN)]

InitContacts ==
    /\ today = 0
    /\ products = ProductIds
    /\ branches = ContactBranchIds
    /\ parts = <<>>
    /\ histories = <<>>
    /\ blobs = {}
    /\ nextBlob = 1
    /\ nextPartPk = 1
    /\ nextHistoryPk = 1
    /\ inflight = <<>>
    /\ contacts = <<>>
    /\ nextContactPk = 1
    /\ response = Resp("none", 0, "none")

NextContacts ==
    \/ \E a \in ContactAttrs(Full(ContactBranchIds)) : CreateContact(a)
    \/ \E pk \in ContactPks, a \in ContactAttrs(Full(ContactBranchIds)) :
            UpdateContact(pk, a, FALSE)
    \/ \E pk \in ContactPks, a \in ContactAttrs(Opt(ContactBranchIds)) :
            UpdateContact(pk, a, TRUE)
    \/ \E user \in {1, 2}, pk \in ContactPks : DeleteContact(user, pk)

SpecContacts == InitContacts /\ [][NextContacts]_vars

\* ------------------------------------------------------------- properties
SameTriple(p, q) ==
    /\ p.product = q.product
    /\ p.supplier_branch = q.supplier_branch
    /\ p.part_number = q.part_number

Administrators ==
    {u \in UserIds : Users[u].is_admin \/ Users[u].is_superuser \/ Users[u].is_staff}

InRange(d, r) == d >= r.start_date /\ (r.end_date = NoDate \/ d <= r.end_date)

SharesDay(a, b) == \E d \in ProbeDays : InRange(d, a) /\ InRange(d, b)

RangeOrdered(r) == r.end_date = NoDate \/ r.end_date >= r.start_date

\* C1: no two distinct active PriceHistory rows of one Part have overlapping
\* date ranges (the claim as stated; the REST handlers do not keep it)
C1_NoActiveOverlap ==
    \A g, h \in DOMAIN histories :
        (/\ g # h
         /\ histories[g].part = histories[h].part
         /\ histories[g].is_active /\ histories[h].is_active)
        => ~SharesDay(histories[g], histories[h])

\* C2: every stored PriceHistory row with an end date has end date >= start
\* date (the claim as stated; a partial update does not keep it)
C2_RangeOrder == \A h \in DOMAIN histories : RangeOrdered(histories[h])

\* C3: for a candidate and a stored row that each have end >= start when
\* bounded, _is_overlapping is true exactly when the two closed date ranges
\* share a day
C3_OverlapIsSharedDay ==
    response.op = "_is_overlapping" =>
        LET c == response.result[1]
            o == histories[1]
        IN  (RangeOrdered(c) /\ RangeOrdered(o)) => (c.overlapping = SharesDay(c, o))

\* C3 witness: the candidate starts on the day after the stored row ends and
\* is found not to overlap
C3_Witness ==
    /\ response.op = "_is_overlapping"
    /\ histories[1].end_date # NoDate
    /\ RangeOrdered(histories[1])
    /\ response.result[1].start_date = histories[1].end_date + 1
    /\ response.result[1].end_date = NoDate
    /\ ~response.result[1].overlapping

SaveOps == {"createPriceHistory", "updatePriceHistory", "adminSavePriceHistory"}

\* C4: a successful save writes is_active = FALSE when the row's end date is
\* before today, and otherwise writes the is_active value the caller submitted
C4_AutoDeactivation ==
    [][(response'.op \in SaveOps /\ response'.status \in {200, 201}) =>
        LET row == histories'[response'.target] IN
        IF row.end_date # NoDate /\ row.end_date < today
        THEN row.is_active = FALSE
        ELSE Has(response'.result) => row.is_active = Val(response'.result)]_vars

\* C4 witness: an update that submitted is_active = TRUE for a row whose end
\* date has passed, stored inactive
C4_Witness ==
    /\ response.op = "updatePriceHistory"
    /\ response.status = 200
    /\ response.result = <<TRUE>>
    /\ histories[response.target].end_date # NoDate
    /\ histories[response.target].end_date < today
    /\ ~histories[response.target].is_active

Started(pk) ==
    {h \in DOMAIN histories :
        /\ histories[h].part = pk
        /\ histories[h].is_active
        /\ histories[h].start_date <= today}

\* C5: current_price is the price of a row of the Part that is active, has
\* started and has the greatest start date among such rows, whatever its end
\* date; it is None exactly when the Part has no such row
C5_CurrentPrice ==
    response.op = "currentPrice" =>
        IF Started(response.target) = {}
        THEN response.result = <<>>
        ELSE \E h \in Started(response.target) :
                /\ \A g \in Started(response.target) :
                        histories[g].start_date <= histories[h].start_date
                /\ response.result = <<histories[h].price>>

\* C5 witness: two started active rows with different start dates and prices,
\* the later one already past its end date, and its price returned
C5_Witness ==
    /\ response.op = "currentPrice"
    /\ \E g, h \in Started(response.target) :
        /\ histories[g].start_date < histories[h].start_date
        /\ histories[g].price # histories[h].price
        /\ histories[h].end_date # NoDate /\ histories[h].end_date < today
        /\ response.result = <<histories[h].price>>

Current(pk) ==
    {h \in DOMAIN histories :
        /\ histories[h].part = pk
        /\ histories[h].is_active
        /\ histories[h].start_date <= today
        /\ (histories[h].end_date = NoDate \/ histories[h].end_date >= today)}

\* C6: current_prices lists exactly the rows of the Part that are active, have
\* started and have not ended, each once, by descending start date
C6_CurrentPrices ==
    response.op = "currentPrices" =>
        LET q == response.result IN
        /\ {q[i] : i \in 1..Len(q)} = Current(response.target)
        /\ Len(q) = Cardinality(Current(response.target))
        /\ \A i, j \in 1..Len(q) :
            i < j => histories[q[i]].start_date >= histories[q[j]].start_date

\* C6 witness: one row listed while a row of the other Part is current too
\* and is left out
C6_Witness ==
    /\ response.op = "currentPrices"
    /\ Len(response.result) = 1
    /\ \E h \in DOMAIN histories :
        /\ histories[h].part # response.target
        /\ Current(histories[h].part) = {h}

\* C7: deletePart by an administrator on an existing Part fails with the
\* dependency error and changes nothing when a PriceHistory row references the
\* Part, and otherwise succeeds and removes that Part and nothing else
C7_DeletePart ==
    [][(/\ response'.op = "deletePart"
        /\ response'.user \in Administrators
        /\ response'.target \in DOMAIN parts) =>
        IF \E h \in DOMAIN histories : histories[h].part = response'.target
        THEN response'.status = 400 /\ response'.error = "dependency" /\ UNCHANGED db
        ELSE /\ response'.status = 204
             /\ parts' = DropKey(parts, response'.target)
             /\ UNCHANGED <<products, branches, histories, blobs>>]_vars

\* C7 witness: the dependency error for a Part all of whose PriceHistory rows
\* are inactive
C7_Witness ==
    /\ response.op = "deletePart"
    /\ response.error = "dependency"
    /\ response.target \in DOMAIN parts
    /\ \A h \in DOMAIN histories :
        histories[h].part = response.target => ~histories[h].is_active

\* C8: deletePart and deletePriceHistory by a caller who is no administrator
\* fail with the authorization error and change no stored record
C8_DeleteForbidden ==
    [][(/\ response'.op \in {"deletePart", "deletePriceHistory"}
        /\ response'.user \notin Administrators) =>
        (response'.status = 403 /\ response'.error = "forbidden" /\ UNCHANGED db)]_vars

\* C8 witness: a refused deletePriceHistory whose row is still stored
C8_Witness ==
    /\ response.op = "deletePriceHistory"
    /\ response.status = 403
    /\ response.user \notin Administrators
    /\ response.target \in DOMAIN histories

\* C9: no step removes a Part that a PriceHistory row references (the claim
\* as stated; deleting the Part's Product does)
C9_NoReferencedPartRemoved ==
    [][\A k \in DOMAIN parts :
        (\E h \in DOMAIN histories : histories[h].part = k) => k \in DOMAIN parts']_vars

UniqueTriples ==
    \A j, k \in DOMAIN parts : j # k => ~SameTriple(parts[j], parts[k])

\* C10: no two distinct Parts ever share (product, supplier branch, part
\* number), and createPart with a triple some Part already has fails with the
\* duplicate error and stores nothing
C10_UniqueTriple ==
    [][/\ UniqueTriples'
       /\ \A a \in PartAttrs(Full(ProductIds), Full(BranchIds), Full(PartNumbers),
                             {<<>>}, Opt({FALSE})) :
            (/\ response'.op = "createPart"
             /\ \E k \in DOMAIN parts :
                    /\ parts[k].product = Val(a.product)
                    /\ parts[k].supplier_branch = Val(a.supplier_branch)
                    /\ parts[k].part_number = Val(a.part_number)
             /\ CreatePart(2, a))
            => (response'.status = 400 /\ response'.error = "duplicate"
                /\ UNCHANGED db)]_vars

\* C10 witness: a refused duplicate createPart beside two stored Parts that
\* differ only in the part number
C10_Witness ==
    /\ response.op = "createPart"
    /\ response.error = "duplicate"
    /\ \E j, k \in DOMAIN parts :
        /\ parts[j].product = parts[k].product
        /\ parts[j].part_number # parts[k].part_number

WriteOps ==
    {"createPart", "updatePart", "deletePart", "createPriceHistory",
     "updatePriceHistory", "deletePriceHistory", "adminSavePriceHistory"}

\* C11: a create, update or delete of a Part or a PriceHistory that answers
\* with an error leaves the Part rows and the PriceHistory rows, and every
\* field of them, as they were
C11_ErrorsMutateNothing ==
    [][(response'.op \in WriteOps /\ response'.status >= 400) =>
        UNCHANGED <<parts, histories>>]_vars

\* C11 witness: an admin save refused for overlap beside the stored row it
\* overlaps
C11_Witness ==
    /\ response.op = "adminSavePriceHistory"
    /\ response.error = "overlap"
    /\ \E h \in DOMAIN histories : histories[h].is_active

\* C12: a PriceHistory candidate with is_active = FALSE is never refused for
\* overlap, whatever active rows of its Part it overlaps (the claim as stated;
\* clean() runs the overlap loop for an inactive candidate too)
C12_InactiveExempt ==
    [][response'.op = "adminSavePriceHistory" =>
        \A pk \in {0} \cup HistoryPks,
           f \in [part : SeededPks, price : {100}, start_date : Days,
                  end_date : EndDates, is_active : {FALSE}] :
            AdminSavePriceHistory(3, pk, f) => response'.error # "overlap"]_vars

\* C13: clean() refuses a candidate for overlap only when a row other than
\* the one being saved, of the same Part, with is_active = TRUE, has a range
\* that overlaps the candidate's; the REST create and update are never refused
\* for overlap
C13_ComparisonSet ==
    /\ response.op \in {"createPriceHistory", "updatePriceHistory"}
        => response.error # "overlap"
    /\ \A pk \in {0} \cup DOMAIN histories,
          f \in [part : SeededPks, start_date : Days, end_date : EndDates,
                 is_active : BOOLEAN] :
            clean(pk, f) = "overlap"
            => \E h \in DOMAIN histories :
                    /\ h # pk
                    /\ histories[h].part = f.part
                    /\ histories[h].is_active
                    /\ _is_overlapping(f, histories[h])

\* C13 witness: the admin change form of the older row saved it active and
\* open-ended while the newer row of the same Part, inactive, covers the same
\* days
C13_Witness ==
    /\ response.op = "adminSavePriceHistory"
    /\ response.status = 200
    /\ response.target = 1
    /\ DOMAIN histories = {1, 2}
    /\ histories[1].is_active /\ ~histories[2].is_active
    /\ histories[1].part = histories[2].part
    /\ histories[1].end_date = NoDate /\ histories[2].end_date = NoDate

C15_StatusFlags ==
    response.op = "getPriceHistory" =>
        LET r == histories[response.target]
            v == response.result[1]
        IN  /\ v.is_current = (/\ r.is_active
                               /\ r.start_date <= today
                               /\ (r.end_date = NoDate \/ r.end_date >= today))
            /\ v.is_future = (r.start_date > today)
            /\ v.is_expired = (r.end_date # NoDate /\ r.end_date < today)
            /\ (r.is_active /\ r.start_date = today /\ r.end_date = NoDate)
                => v.is_current
            /\ (r.is_active /\ r.start_date <= today /\ r.end_date = today)
                => v.is_current
            /\ (r.end_date # NoDate /\ r.end_date = today - 1) => v.is_expired

\* C15 witness: an active row read on its last day is current, not expired
C15_Witness ==
    /\ response.op = "getPriceHistory"
    /\ histories[response.target].is_active
    /\ histories[response.target].start_date < today
    /\ histories[response.target].end_date = today
    /\ response.result[1].is_current
    /\ ~response.result[1].is_expired

Succeeded(r) ==
    /\ r \in DOMAIN inflight
    /\ inflight[r].pc = "done"
    /\ inflight[r].status \in {200, 201}

\* two requests served at the same time have both succeeded
BothSucceeded(q, r) ==
    /\ q # r
    /\ Succeeded(q) /\ Succeeded(r)
    /\ inflight[q].raced /\ inflight[r].raced

\* the createPart half of C16: the unique index refuses the second INSERT
ConcurrentCreatePartExclusive ==
    \A q, r \in RequestIds :
        (/\ BothSucceeded(q, r)
         /\ inflight[q].op = "createPart" /\ inflight[r].op = "createPart")
        => ~SameTriple(inflight[q].row, inflight[r].row)

\* C16: two requests served at the same time never both succeed when they
\* save active PriceHistory rows of one Part whose ranges overlap, nor when
\* they create Parts with the same triple (the claim as stated; nothing
\* serialises the validation of one request with the write of the other)
C16_NoInterleaving ==
    \A q, r \in RequestIds :
        BothSucceeded(q, r) =>
            /\ (inflight[q].op = "createPart" /\ inflight[r].op = "createPart")
                => ~SameTriple(inflight[q].row, inflight[r].row)
            /\ (inflight[q].op # "createPart" /\ inflight[r].op # "createPart")
                => ~(/\ inflight[q].row.part = inflight[r].row.part
                     /\ inflight[q].row.is_active /\ inflight[r].row.is_active
                     /\ SharesDay(inflight[q].row, inflight[r].row))

\* the row an update of the Part pk with the fields a would store
Updated(pk, a) ==
    [product |-> Merge(a.product, parts[pk].product),
     supplier_branch |-> Merge(a.supplier_branch, parts[pk].supplier_branch),
     part_number |-> Merge(a.part_number, parts[pk].part_number)]

\* C17: updatePart, full or partial, is never refused as a duplicate when the
\* resulting triple is the Part's own, and is refused as a duplicate, nothing
\* changed, when the resulting triple is that of another Part
C17_UpdatePartUniqueness ==
    [][response'.op = "updatePart" =>
        \A pk \in DOMAIN parts, partial \in BOOLEAN :
            \A a \in IF partial THEN OnePartField
                     ELSE PartAttrs(Full(ProductIds), Full(BranchIds),
                                    Full(PartNumbers), {<<>>}, {<<>>}) :
                UpdatePart(2, pk, a, partial) =>
                    /\ SameTriple(Updated(pk, a), parts[pk])
                        => response'.error # "duplicate"
                    /\ (\E k \in DOMAIN parts \ {pk} :
                            SameTriple(Updated(pk, a), parts[k]))
                        => /\ response'.status = 400
                           /\ response'.error = "duplicate"
                           /\ UNCHANGED db]_vars

\* C17 witness: an update refused as a duplicate while the two stored Parts
\* differ in the part number only
C17_Witness ==
    /\ response.op = "updatePart"
    /\ response.error = "duplicate"
    /\ DOMAIN parts = {1, 2}
    /\ parts[1].product = parts[2].product
    /\ parts[1].supplier_branch = parts[2].supplier_branch
    /\ parts[1].part_number # parts[2].part_number

\* C18: current_price read twice for the same Part, on the same day and with
\* no write in between, returns the same value both times, also when several
\* started active rows share the greatest start date (the claim as stated;
\* order_by('-start_date').first() leaves the choice among such rows open)
C18_CurrentPriceDeterministic ==
    [][(/\ response.op = "currentPrice"
        /\ response'.op = "currentPrice"
        /\ response'.target = response.target)
        => response'.result = response.result]_vars

\* an active row past its end date that started after every other started
\* active row of its Part
LapsedLatest(h) ==
    /\ histories[h].is_active
    /\ histories[h].start_date <= today
    /\ histories[h].end_date # NoDate /\ histories[h].end_date < today
    /\ \A g \in Started(histories[h].part) \ {h} :
            histories[g].start_date < histories[h].start_date

\* C19: whenever a row that was saved active has since passed its end date
\* without being saved again and is the latest started active row of its
\* Part, current_price returns its price while current_prices leaves it out
C19_Divergence ==
    \A h \in DOMAIN histories :
        LapsedLatest(h) =>
            /\ current_price(histories[h].part) = {<<histories[h].price>>}
            /\ \A q \in current_prices(histories[h].part) :
                    \A i \in 1..Len(q) : q[i] # h
            /\ (response.op = "currentPrice" /\ response.target = histories[h].part)
                => response.result = <<histories[h].price>>
            /\ (response.op = "currentPrices" /\ response.target = histories[h].part)
                => \A i \in 1..Len(response.result) : response.result[i] # h

\* C19 witness: current_prices has just returned no row for a Part whose
\* current_price is the price of a row that ended before today
C19_Witness ==
    /\ response.op = "currentPrices"
    /\ response.result = <<>>
    /\ \E h \in DOMAIN histories :
        /\ histories[h].part = response.target
        /\ LapsedLatest(h)
        /\ current_price(response.target) = {<<histories[h].price>>}

\* C20: deletePart by a caller who is no administrator is answered with the
\* authorization rejection, whether or not the Part exists or has PriceHistory
\* rows; the dependency and not-found rejections go to administrators only;
\* and the authorization rejection has a status (403) that no validation,
\* dependency or not-found rejection has
C20_AuthorizationPrecedence ==
    /\ (response.status = 403) <=> (response.error = "forbidden")
    /\ response.op = "deletePart" =>
        /\ response.user \notin Administrators
            => (response.status = 403 /\ response.error = "forbidden")
        /\ response.error \in {"dependency", "not_found"}
            => response.user \in Administrators

\* C20 witness: a regular user refused for a primary key that no Part has
C20_Witness ==
    /\ response.op = "deletePart"
    /\ response.status = 403
    /\ response.user \notin Administrators
    /\ response.target \notin DOMAIN parts
    /\ parts # <<>>

\* C21: every stored Part has minimum order quantity >= 1; a createPart or
\* updatePart that supplies a value below 1 is refused as an invalid value and
\* stores nothing; a createPart that omits the value stores 1
C21_MinimumOrderQuantity ==
    [][/\ \A k \in DOMAIN parts' : parts'[k].minimum_order_quantity >= 1
       /\ response'.op \in {"createPart", "updatePart"} =>
            \A a \in QuantityCreates \cup QuantityPatches :
                /\ (/\ Has(a.minimum_order_quantity)
                    /\ Val(a.minimum_order_quantity) < 1
                    /\ \/ \E user \in {1, 2} : CreatePart(user, a)
                       \/ \E pk \in DOMAIN parts, partial \in BOOLEAN :
                            UpdatePart(2, pk, a, partial))
                    => /\ response'.status = 400
                       /\ response'.error \in {"invalid_value", "required"}
                       /\ Has(a.product) => response'.error = "invalid_value"
                       /\ UNCHANGED db
                /\ (/\ ~Has(a.minimum_order_quantity)
                    /\ \E user \in {1, 2} : CreatePart(user, a)
                    /\ response'.status = 201)
                    => parts'[nextPartPk].minimum_order_quantity = 1]_vars

\* C21 witness: an update refused for its quantity while one stored Part
\* keeps the default 1 and the other a quantity that was supplied
C21_Witness ==
    /\ response.op = "updatePart"
    /\ response.error = "invalid_value"
    /\ \E j, k \in DOMAIN parts :
        /\ parts[j].minimum_order_quantity = 1
        /\ parts[k].minimum_order_quantity > 1

\* the derived flag of the row that the status name stands for
StatusFlag(status, self) ==
    CASE status = "current" -> is_current(self)
      [] status = "future" -> is_future(self)
      [] status = "expired" -> is_expired(self)

\* C22: the list filtered on a status holds exactly the stored rows (that
\* pass the other filters) whose is_current / is_future / is_expired is true
\* on the same day, each once; with status=current and no other filter it
\* holds exactly the rows of current_prices of all Parts
C22_StatusFilter ==
    (response.op = "listPriceHistories" /\ Has(response.result[1].query.status)) =>
        LET q == response.result[1].query
            rows == response.result[1].rows
            listed == {rows[i] : i \in 1..Len(rows)}
        IN  /\ Len(rows) = Cardinality(listed)
            /\ listed =
                {h \in get_queryset([q EXCEPT !.status = <<>>]) :
                    StatusFlag(Val(q.status), histories[h])}
            /\ (/\ Val(q.status) = "current"
                /\ ~Has(q.part) /\ ~Has(q.product) /\ ~Has(q.is_active))
                => \A k \in DOMAIN parts : \A c \in current_prices(k) :
                    {c[i] : i \in 1..Len(c)} = {h \in listed : histories[h].part = k}

\* C22 witness: the expired list holds one row and leaves out a row that
\* ends today
C22_Witness ==
    /\ response.op = "listPriceHistories"
    /\ response.result[1].query.status = <<"expired">>
    /\ ~Has(response.result[1].query.part)
    /\ Len(response.result[1].rows) = 1
    /\ \E h \in DOMAIN histories : histories[h].end_date = today

\* C23: a createPriceHistory submitted with is_active = TRUE and an end date
\* before today, whose range overlaps an active row of the same Part, is
\* refused for overlap and writes nothing, instead of being stored inactive
\* (the claim as stated; the REST create runs no overlap check, so save()
\* stores the row with is_active forced to FALSE)
C23_ValidateBeforeSave ==
    [][response'.op = "createPriceHistory" =>
        \A a \in PriceHistoryAttrs(Full(SeededPks), Full({100}), Full(Days),
                                   Full(Days), Full({TRUE}), {<<>>}) :
            (/\ Val(a.end_date) < today
             /\ Val(a.start_date) <= Val(a.end_date)
             /\ \E h \in DOMAIN histories :
                    /\ histories[h].part = Val(a.part)
                    /\ histories[h].is_active
                    /\ _is_overlapping([start_date |-> Val(a.start_date),
                                        end_date |-> Val(a.end_date)],
                                       histories[h])
             /\ CreatePriceHistory(2, a))
            => /\ response'.status = 400
               /\ response'.error = "overlap"
               /\ UNCHANGED db]_vars

C25_SingleCurrentPrice ==
    \A pk \in DOMAIN parts : ~has_multiple_active_prices(pk)

\* the active rows of the Part pk are range-ordered and no two share a day
ActiveRowsDisjoint(pk) ==
    LET active == {h \in PriceHistoriesOf(pk) : histories[h].is_active}
    IN  /\ \A h \in active : RangeOrdered(histories[h])
        /\ \A g, h \in active :
            g # h => ~SharesDay(histories[g], histories[h])

\* C26: for a Part whose active rows are range-ordered and pairwise disjoint,
\* whenever current_prices is not empty, current_price is the price of the
\* first row of current_prices
C26_ResolutionsAgree ==
    \A pk \in DOMAIN parts :
        ActiveRowsDisjoint(pk) =>
            \A q \in current_prices(pk) :
                q # <<>> =>
                    current_price(pk) = {<<histories[q[1]].price>>}

\* C26 witness: a Part holds two disjoint active rows with different prices,
\* the earlier one ended before today and the later one current
C26_Witness ==
    \E pk \in DOMAIN parts :
        /\ ActiveRowsDisjoint(pk)
        /\ \E q \in current_prices(pk) : q # <<>>
        /\ \E g, h \in PriceHistoriesOf(pk) :
            /\ histories[g].is_active /\ histories[h].is_active
            /\ histories[g].price # histories[h].price
            /\ histories[g].end_date # NoDate
            /\ histories[g].end_date < today
            /\ histories[h].start_date <= today

C28_CreatorFrame ==
    [][/\ \A user \in {1, 2}, a \in CreatorParts :
            (CreatePart(user, a) /\ response'.status = 201)
            => parts'[nextPartPk].created_by = user
       /\ \A user \in {1, 2}, a \in CreatorRows :
            (CreatePriceHistory(user, a) /\ response'.status = 201)
            => histories'[nextHistoryPk].created_by = user
       /\ response'.op \in {"updatePart", "updatePriceHistory"} =>
            /\ \A pk \in DOMAIN parts :
                parts'[pk].created_by = parts[pk].created_by
            /\ \A pk \in DOMAIN histories :
                histories'[pk].created_by = histories[pk].created_by]_vars

\* C29: for a range-ordered row, on every day, at most one of is_current,
\* is_future and is_expired is true, and none is true exactly when the row is
\* inactive, has started and has not ended
C29_StatusExclusive ==
    (response.op = "getPriceHistory"
     /\ RangeOrdered(histories[response.target])) =>
        LET r == histories[response.target]
            v == response.result[1]
        IN  /\ ~(v.is_current /\ v.is_future)
            /\ ~(v.is_current /\ v.is_expired)
            /\ ~(v.is_future /\ v.is_expired)
            /\ (~v.is_current /\ ~v.is_future /\ ~v.is_expired)
                <=> (/\ ~r.is_active
                     /\ r.start_date <= today
                     /\ (r.end_date = NoDate \/ r.end_date >= today))

\* C29 witness: an inactive row that started before today and ends after
\* today was read with none of the three flags true
C29_Witness ==
    /\ response.op = "getPriceHistory"
    /\ ~histories[response.target].is_active
    /\ histories[response.target].start_date < today
    /\ histories[response.target].end_date > today
    /\ ~response.result[1].is_current
    /\ ~response.result[1].is_future
    /\ ~response.result[1].is_expired

\* the contacts of the branch b that are marked primary
PrimaryContacts(b) ==
    {k \in DOMAIN contacts : contacts[k].branch = b /\ contacts[k].is_primary}

\* C30: every branch has at most one primary contact after any save; a save of
\* a contact with is_primary = TRUE leaves no other contact of the contact's
\* branch primary and changes no other field of any contact; a save changes
\* no contact of another branch
C30_SinglePrimary ==
    [][/\ \A b \in ContactBranchIds : Cardinality(PrimaryContacts(b))' <= 1
       /\ (response'.op \in {"createContact", "updateContact"}
           /\ response'.status \in {200, 201}) =>
            LET pk == response'.target
                self == contacts'[pk]
            IN  \A k \in DOMAIN contacts \ {pk} :
                    /\ k \in DOMAIN contacts'
                    /\ contacts'[k] =
                        IF self.is_primary /\ contacts[k].branch = self.branch
                        THEN [contacts[k] EXCEPT !.is_primary = FALSE]
                        ELSE contacts[k]]_vars

\* C30 witness: a contact was moved by an update into a branch that had a
\* primary contact and is now the only primary contact of that branch, while
\* the branch it left still has its own primary contact
C30_Witness ==
    /\ response.op = "updateContact"
    /\ response.status = 200
    /\ contacts[response.target].is_primary
    /\ \E k \in DOMAIN contacts \ {response.target} :
            /\ contacts[k].branch = contacts[response.target].branch
            /\ ~contacts[k].is_primary
    /\ \E k \in DOMAIN contacts :
            /\ contacts[k].branch # contacts[response.target].branch
            /\ contacts[k].is_primary

====
